---- MODULE Spec2Model ----
(***************************************************************************)
(* rschip8: the CHIP-8 execution core of src/src/cpu.rs and the host of    *)
(* src/src/main.rs.                                                        *)
(*                                                                         *)
(* A machine is a record of the fields of struct CPU.  Every method of     *)
(* impl CPU is an operator from machine to machine; a Rust panic is the    *)
(* field `panic` of the machine holding the kind of the panic, and a       *)
(* machine that has panicked is left as the panicking statement found it.  *)
(* The memory Vec<u8> of 4096 bytes is represented by its non-zero bytes.  *)
(***************************************************************************)
EXTENDS Integers, Sequences, FiniteSets, TLC

VARIABLES
    v_regs,             \* regs.v_regs : [u8; 16]
    i,                  \* regs.i      : u16
    pc,                 \* regs.pc     : u16
    sp,                 \* regs.sp     : u16
    memory,             \* memory      : Vec<u8>, the non-zero bytes
    dt,                 \* delay timer : u8
    st,                 \* sound timer : u8
    timedelta_error,    \* ms left over from the previous clock calls : u32
    prng_val,           \* xorshift state : u32, its 32 bits, the lowest first
    panic,              \* "none", or the kind of the panic that ended the process
    overflow_checks,    \* the build: TRUE = debug (overflow panics), FALSE = release (wraps)
    host,               \* position of the host program (main.rs)
    ret,                \* value returned to the host by its last call
    hist                \* the last HistLen host calls, each with the machine it found

vars == <<v_regs, i, pc, sp, memory, dt, st, timedelta_error, prng_val,
          panic, overflow_checks, host, ret, hist>>

----------------------------------------------------------------------------
(* Widths and sizes of the program.                                        *)

MemSize  == 4096
StackBase == 512
TickMs   == 16
SeedHi   == 2989     \* 0x0badf00d, the high and the low half
SeedLo   == 61453
MaxRegs  == 8
NumRegs  == 16

U8  == 256
U16 == 65536
Bits32 == 32

\* main.rs: go(0x200), write_bytes(0x200, ..), clock(1)
LoadBase == 512
MsDelta  == 1

(* Bounds of the model.                                                    *)
HistLen     == 5    \* host calls remembered
MaxReg      == 1    \* programs use registers 0..MaxReg and 15
MaxVal      == 1    \* immediates are 0..MaxVal and 255-MaxVal..255
MaxWords    == 3    \* words of a call/return program
MaxTimer    == 2    \* timers are loaded with 0..MaxTimer
MaxApiCalls == 3    \* calls of a host that uses the memory interface

----------------------------------------------------------------------------
(* Bit operations on naturals, bit by bit.                                 *)

RECURSIVE BitAnd(_, _)
BitAnd(a, b) ==
    IF a = 0 \/ b = 0 THEN 0
    ELSE (IF a % 2 = 1 /\ b % 2 = 1 THEN 1 ELSE 0) + 2 * BitAnd(a \div 2, b \div 2)

RECURSIVE BitOr(_, _)
BitOr(a, b) ==
    IF a = 0 THEN b
    ELSE IF b = 0 THEN a
    ELSE (IF a % 2 = 1 \/ b % 2 = 1 THEN 1 ELSE 0) + 2 * BitOr(a \div 2, b \div 2)

RECURSIVE BitXor(_, _)
BitXor(a, b) ==
    IF a = 0 THEN b
    ELSE IF b = 0 THEN a
    ELSE (IF a % 2 # b % 2 THEN 1 ELSE 0) + 2 * BitXor(a \div 2, b \div 2)

RECURSIVE Pow2(_)
Pow2(n) == IF n = 0 THEN 1 ELSE 2 * Pow2(n - 1)

Shl(a, n, width) == (a * Pow2(n)) % width
Shr(a, n) == a \div Pow2(n)

----------------------------------------------------------------------------
(* Panics and checked arithmetic.                                          *)

Running(s) == s.panic = "none"
Panic(s, kind) == IF Running(s) THEN [s EXCEPT !.panic = kind] ELSE s

\* a + b at a width: the wrapped value, and whether it overflowed
Wrap(n, width) == n % width
Overflows(n, width) == n < 0 \/ n >= width

----------------------------------------------------------------------------
(* Memory: Vec<u8> of MemSize bytes, zero filled.                          *)

MemAt(m, addr) == IF addr \in DOMAIN m THEN m[addr] ELSE 0
MemPut(m, addr, data) ==
    IF data = 0 THEN [a \in DOMAIN m \ {addr} |-> m[a]]
    ELSE [a \in DOMAIN m \cup {addr} |-> IF a = addr THEN data ELSE m[a]]

\* the bytes of a word, the low byte first
to_le_bytes(data) == <<data % 256, data \div 256>>

to_be_bytes(data) == <<data \div 256, data % 256>>
from_be_bytes(bytes) == bytes[1] * 256 + bytes[2]

\* write_byte with the address truncated to a byte (addr as u8)
write_byte_truncated(s, addr, data) ==
    IF ~Running(s) THEN s
    ELSE IF addr >= MemSize THEN Panic(s, "index out of bounds")
    ELSE [s EXCEPT !.memory = MemPut(s.memory, addr % U8, data)]

write_byte(s, addr, data) ==
    IF ~Running(s) THEN s
    ELSE IF addr >= MemSize THEN Panic(s, "index out of bounds")
    ELSE [s EXCEPT !.memory = MemPut(s.memory, addr, data)]

write_word(s, addr, data) ==
    LET bytes == to_be_bytes(data)
        s1 == write_byte(s, addr, bytes[1])
    IN  IF ~Running(s1) THEN s1
        ELSE IF Overflows(addr + 1, U16) /\ s.overflow_checks THEN Panic(s1, "overflow")
        ELSE write_byte(s1, Wrap(addr + 1, U16), bytes[2])

read_byte_ok(s, addr) == addr < MemSize
read_byte(s, addr) == MemAt(s.memory, addr)

read_word_ok(s, addr) == addr + 2 <= MemSize
read_word(s, addr) == from_be_bytes(<<MemAt(s.memory, addr), MemAt(s.memory, addr + 1)>>)

RECURSIVE PutBytes(_, _, _)
PutBytes(m, addr, data) ==
    IF data = <<>> THEN m
    ELSE PutBytes(MemPut(m, addr, Head(data)), addr + 1, Tail(data))

write_bytes(s, addr, data) ==
    IF ~Running(s) THEN s
    ELSE IF addr + Len(data) > MemSize THEN Panic(s, "index out of bounds")
    ELSE [s EXCEPT !.memory = PutBytes(s.memory, addr, data)]

\* read_bytes clones the slice into a Vec of length 0: any other length panics
read_bytes_panic(s, addr, size) ==
    IF addr + size > MemSize THEN "index out of bounds"
    ELSE IF size # 0 THEN "length mismatch"
    ELSE "none"
read_bytes(s, addr, size) == [k \in 1..size |-> MemAt(s.memory, addr + k - 1)]

----------------------------------------------------------------------------
(* Stack.                                                                  *)

\* push_word that writes before it moves the stack pointer
push_word_then_move(s, data) ==
    IF ~Running(s) THEN s
    ELSE LET s1 == write_word(s, s.sp, data)
         IN  IF ~Running(s1) THEN s1
             ELSE IF Overflows(s.sp - 2, U16) /\ s.overflow_checks THEN Panic(s1, "overflow")
             ELSE [s1 EXCEPT !.sp = Wrap(s.sp - 2 + U16, U16)]

push_word(s, data) ==
    IF ~Running(s) THEN s
    ELSE IF Overflows(s.sp - 2, U16) /\ s.overflow_checks THEN Panic(s, "overflow")
    ELSE LET s1 == [s EXCEPT !.sp = Wrap(s.sp - 2 + U16, U16)]
         IN  write_word(s1, s1.sp, data)

\* the machine after pop_word; the word popped is read_word(s, s.sp)
pop_word(s) ==
    IF ~Running(s) THEN s
    ELSE IF ~read_word_ok(s, s.sp) THEN Panic(s, "index out of bounds")
    ELSE IF Overflows(s.sp + 2, U16) /\ s.overflow_checks THEN Panic(s, "overflow")
    ELSE [s EXCEPT !.sp = Wrap(s.sp + 2, U16)]

do_ret(s) ==
    LET data == read_word(s, s.sp)
        s1 == pop_word(s)
    IN  IF Running(s1) THEN [s1 EXCEPT !.pc = data] ELSE s1

do_call(s, addr) ==
    IF ~Running(s) THEN s
    ELSE IF Overflows(s.pc + 2, U16) /\ s.overflow_checks THEN Panic(s, "overflow")
    ELSE LET s1 == push_word(s, Wrap(s.pc + 2, U16))
         IN  IF Running(s1) THEN [s1 EXCEPT !.pc = addr] ELSE s1

----------------------------------------------------------------------------
(* Instruction decoding.                                                   *)

RECURSIVE bytes_to_nibbles(_)
bytes_to_nibbles(bytes) ==
    IF bytes = <<>> THEN <<>>
    ELSE <<Shr(BitAnd(Head(bytes), 240), 4), BitAnd(Head(bytes), 15)>>
         \o bytes_to_nibbles(Tail(bytes))

\* the loop of nibbles_to_bytes: v is the Vec built so far
RECURSIVE NibbleLoop(_, _, _)
NibbleLoop(nibbles, v, first_half) ==
    IF nibbles = <<>> THEN v
    ELSE IF first_half THEN NibbleLoop(Tail(nibbles), Append(v, Head(nibbles)), FALSE)
    ELSE LET idx == Len(v)
         IN  NibbleLoop(Tail(nibbles),
                        [v EXCEPT ![idx] = BitOr(Shl(v[idx], 4, U8), Head(nibbles))],
                        TRUE)

nibbles_to_bytes(nibbles) == NibbleLoop(nibbles, <<>>, TRUE)

\* nibbles3_to_u16 without the zero in place of the first nibble
nibbles4_to_u16(insn_nibbles) ==
    from_be_bytes(nibbles_to_bytes(insn_nibbles))

nibbles3_to_u16(insn_nibbles) ==
    from_be_bytes(nibbles_to_bytes(<<0>> \o Tail(insn_nibbles)))

----------------------------------------------------------------------------
(* Register operations.                                                    *)

Min(a, b) == IF a <= b THEN a ELSE b

set_vf_cond(s, cond) == [s EXCEPT !.v_regs[15] = IF cond THEN 1 ELSE 0]

\* self.regs.v_regs[dest] = <an u8 expression that may overflow>, after the
\* flag writes s1 the expression made
SetChecked(s1, dest, n) ==
    IF Overflows(n, U8) /\ s1.overflow_checks THEN Panic(s1, "overflow")
    ELSE [s1 EXCEPT !.v_regs[dest] = Wrap(n + U8, U8)]

\* binary_reg_op with the shifts taking Vy, as the COSMAC interpreter did
binary_reg_op_shift_vy(s, dest, src, op) ==
    LET x == s.v_regs[dest]
        y == s.v_regs[src]
    IN  IF ~Running(s) THEN s
        ELSE IF op = 0 THEN [s EXCEPT !.v_regs[dest] = y]
        ELSE IF op = 1 THEN [s EXCEPT !.v_regs[dest] = BitOr(x, y)]
        ELSE IF op = 2 THEN [s EXCEPT !.v_regs[dest] = BitAnd(x, y)]
        ELSE IF op = 3 THEN [s EXCEPT !.v_regs[dest] = BitXor(x, y)]
        ELSE IF op = 4 THEN SetChecked(set_vf_cond(s, x + y > 255), dest, x + y)
        ELSE IF op = 5 THEN SetChecked(set_vf_cond(s, x > y), dest, x - y)
        ELSE IF op = 6 THEN [s EXCEPT !.v_regs[15] = BitAnd(y, 1), !.v_regs[dest] = Shr(y, 1)]
        ELSE IF op = 7 THEN SetChecked(set_vf_cond(s, y > x), dest, y - x)
        ELSE IF op = 14 THEN [s EXCEPT !.v_regs[15] = Shr(y, 7), !.v_regs[dest] = Shl(y, 1, U8)]
        ELSE [s EXCEPT !.v_regs[dest] = 0]

binary_reg_op(s, dest, src, op) ==
    LET x == s.v_regs[dest]
        y == s.v_regs[src]
    IN  IF ~Running(s) THEN s
        ELSE IF op = 0 THEN [s EXCEPT !.v_regs[dest] = y]
        ELSE IF op = 1 THEN [s EXCEPT !.v_regs[dest] = BitOr(x, y)]
        ELSE IF op = 2 THEN [s EXCEPT !.v_regs[dest] = BitAnd(x, y)]
        ELSE IF op = 3 THEN [s EXCEPT !.v_regs[dest] = BitXor(x, y)]
        ELSE IF op = 4 THEN SetChecked(set_vf_cond(s, x + y > 255), dest, x + y)
        ELSE IF op = 5 THEN SetChecked(set_vf_cond(s, x > y), dest, x - y)
        ELSE IF op = 6 THEN [s EXCEPT !.v_regs[15] = BitAnd(x, 1), !.v_regs[dest] = Shr(x, 1)]
        ELSE IF op = 7 THEN SetChecked(set_vf_cond(s, y > x), dest, y - x)
        ELSE IF op = 14 THEN [s EXCEPT !.v_regs[15] = Shr(x, 7), !.v_regs[dest] = Shl(x, 1, U8)]
        ELSE [s EXCEPT !.v_regs[dest] = 0]

\* skip_cond without its test: the skip is always taken
skip_cond_always(s, cond) ==
    IF ~Running(s) THEN s
    ELSE IF Overflows(s.pc + 2, U16) /\ s.overflow_checks THEN Panic(s, "overflow")
    ELSE [s EXCEPT !.pc = Wrap(s.pc + 2, U16)]

skip_cond(s, cond) ==
    IF ~Running(s) \/ ~cond THEN s
    ELSE IF Overflows(s.pc + 2, U16) /\ s.overflow_checks THEN Panic(s, "overflow")
    ELSE [s EXCEPT !.pc = Wrap(s.pc + 2, U16)]

\* u32 as its bits: bit k of the word is v[k + 1]
ShlBits(v, n) == [k \in 1..Bits32 |-> IF k > n THEN v[k - n] ELSE 0]
ShrBits(v, n) == [k \in 1..Bits32 |-> IF k + n <= Bits32 THEN v[k + n] ELSE 0]
XorBits(a, b) == [k \in 1..Bits32 |-> (a[k] + b[k]) % 2]
BitsOf(hi, lo) ==
    [k \in 1..Bits32 |->
        IF k <= 16 THEN (lo \div Pow2(k - 1)) % 2 ELSE (hi \div Pow2(k - 17)) % 2]

RECURSIVE LowBits(_, _)
LowBits(v, n) == IF n = 0 THEN 0 ELSE v[1] + 2 * LowBits(Tail(v), n - 1)

\* the xorshift steps with the middle shift to the left
XorShiftAllLeft(v) ==
    LET a == XorBits(v, ShlBits(v, 13))
        b == XorBits(a, ShlBits(a, 17))
    IN  XorBits(b, ShlBits(b, 5))

\* the three xorshift steps of random
XorShift(v) ==
    LET a == XorBits(v, ShlBits(v, 13))
        b == XorBits(a, ShrBits(a, 17))
    IN  XorBits(b, ShlBits(b, 5))

\* the machine after random; it returns self.prng_val as u8
random(s) == [s EXCEPT !.prng_val = XorShift(s.prng_val)]

RECURSIVE StoreLoop(_, _, _, _)
StoreLoop(s, addr, k, nr) ==
    IF ~Running(s) \/ k >= nr THEN s
    ELSE IF Overflows(addr + k, U16) /\ s.overflow_checks THEN Panic(s, "overflow")
    ELSE StoreLoop(write_byte(s, Wrap(addr + k, U16), s.v_regs[k]), addr, k + 1, nr)

store_regs(s, addr, nr) ==
    IF ~Running(s) THEN s
    ELSE IF ~(nr <= MaxRegs) THEN Panic(s, "assertion failed")
    ELSE StoreLoop(s, addr, 0, nr)

RECURSIVE LoadLoop(_, _, _, _)
LoadLoop(s, addr, k, nr) ==
    IF ~Running(s) \/ k >= nr THEN s
    ELSE IF Overflows(addr + k, U16) /\ s.overflow_checks THEN Panic(s, "overflow")
    ELSE IF ~read_byte_ok(s, Wrap(addr + k, U16)) THEN Panic(s, "index out of bounds")
    ELSE LoadLoop([s EXCEPT !.v_regs[k] = read_byte(s, Wrap(addr + k, U16))],
                  addr, k + 1, nr)

load_regs(s, addr, nr) ==
    IF ~Running(s) THEN s
    ELSE IF ~(nr <= MaxRegs) THEN Panic(s, "assertion failed")
    ELSE LoadLoop(s, addr, 0, nr)

----------------------------------------------------------------------------
(* One cycle.                                                              *)

Between(lo, n, hi) == lo <= n /\ n <= hi

\* the match of clock: the arms in the order of the source, first match wins
Execute(s, insn) ==
    LET insn_bytes == to_be_bytes(insn)
        insn_nibbles == bytes_to_nibbles(insn_bytes)
        x == insn_nibbles[2]
        y == insn_nibbles[3]
        kk == insn_bytes[2]
    IN  IF ~Running(s) THEN s
        ELSE IF insn = 224 THEN s
        ELSE IF insn = 238 THEN do_ret(s)
        ELSE IF Between(4096, insn, 8191) THEN [s EXCEPT !.pc = BitAnd(insn, 4095)]
        ELSE IF Between(8192, insn, 12287) THEN do_call(s, BitAnd(insn, 4095))
        ELSE IF Between(12288, insn, 16383) THEN skip_cond(s, s.v_regs[x] = kk)
        ELSE IF Between(16384, insn, 20479) THEN skip_cond(s, s.v_regs[x] # kk)
        ELSE IF Between(20480, insn, 24575) THEN skip_cond(s, s.v_regs[x] = s.v_regs[y])
        ELSE IF Between(24576, insn, 28671) THEN [s EXCEPT !.v_regs[x] = kk]
        ELSE IF Between(28672, insn, 32767) THEN SetChecked(s, x, s.v_regs[x] + kk)
        ELSE IF Between(32768, insn, 36863) THEN binary_reg_op(s, x, y, insn_nibbles[4])
        ELSE IF Between(36864, insn, 40959) THEN skip_cond(s, s.v_regs[x] # s.v_regs[y])
        ELSE IF Between(40960, insn, 45055) THEN [s EXCEPT !.i = nibbles3_to_u16(insn_nibbles)]
        ELSE IF Between(45056, insn, 49151) THEN
            LET n == nibbles3_to_u16(insn_nibbles) + s.v_regs[0]
            IN  IF Overflows(n, U16) /\ s.overflow_checks THEN Panic(s, "overflow")
                ELSE [s EXCEPT !.pc = Wrap(n, U16)]
        ELSE IF Between(49152, insn, 53247) THEN
            LET s1 == random(s)
            IN  [s1 EXCEPT !.v_regs[x] = BitAnd(LowBits(s1.prng_val, 8), kk)]
        ELSE IF Between(61447, insn, 65287) THEN [s EXCEPT !.v_regs[x] = s.dt]
        ELSE IF Between(61461, insn, 65301) THEN [s EXCEPT !.dt = s.v_regs[x]]
        ELSE IF Between(61464, insn, 65304) THEN [s EXCEPT !.st = s.v_regs[x]]
        ELSE IF Between(61470, insn, 65310) THEN
            LET n == s.v_regs[x] + s.i
            IN  IF Overflows(n, U16) /\ s.overflow_checks THEN Panic(s, "overflow")
                ELSE [s EXCEPT !.i = Wrap(n, U16)]
        ELSE IF Between(61525, insn, 65365) THEN store_regs(s, s.i, x)
        ELSE IF Between(61541, insn, 65381) THEN load_regs(s, s.i, x)
        ELSE Panic(s, "undefined opcode")

\* self.<timer> = cmp::min(0, self.<timer> - timer_ticks as u8)
TimerStep(s, timer, timer_ticks) ==
    LET n == s[timer] - (timer_ticks % U8)
    IN  IF ~Running(s) THEN s
        ELSE IF Overflows(n, U8) /\ s.overflow_checks THEN Panic(s, "overflow")
        ELSE [s EXCEPT ![timer] = Min(0, Wrap(n + U8, U8))]

\* An u32 too big for one number is the pair <<high half, low half>>.
\* ms_delta + self.timedelta_error: the sum, its high half unwrapped
AddMs(ms_delta, err) ==
    LET lo == ms_delta[2] + err
    IN  <<ms_delta[1] + lo \div U16, lo % U16>>

\* line 212: (ms_delta + self.timedelta_error) / 16, the sum wrapped to 32
\* bits (TickMs divides 2^16)
TimerTicks(s, ms_delta) ==
    LET sum == AddMs(ms_delta, s.timedelta_error)
    IN  Wrap(sum[1], U16) * (U16 \div TickMs) + sum[2] \div TickMs

\* lines 212-215: the timers
Tick(s, ms_delta) ==
    LET sum == AddMs(ms_delta, s.timedelta_error)
        timer_ticks == TimerTicks(s, ms_delta)
        s1 == [s EXCEPT !.timedelta_error = sum[2] % TickMs]
    IN  IF ~Running(s) THEN s
        ELSE IF Overflows(sum[1], U16) /\ s.overflow_checks THEN Panic(s, "overflow")
        ELSE TimerStep(TimerStep(s1, "st", timer_ticks), "dt", timer_ticks)

\* lines 217-275: fetch, advance, execute
Cycle(s) ==
    IF ~Running(s) THEN s
    ELSE IF ~read_word_ok(s, s.pc) THEN Panic(s, "index out of bounds")
    ELSE LET insn == read_word(s, s.pc)
         IN  IF Overflows(s.pc + 2, U16) /\ s.overflow_checks THEN Panic(s, "overflow")
             ELSE Execute([s EXCEPT !.pc = Wrap(s.pc + 2, U16)], insn)

clock(s, ms_delta) == Cycle(Tick(s, ms_delta))

----------------------------------------------------------------------------
(* The machine as a record, and CPU::new.                                  *)

Self ==
    [v_regs |-> v_regs, i |-> i, pc |-> pc, sp |-> sp, memory |-> memory,
     dt |-> dt, st |-> st, timedelta_error |-> timedelta_error,
     prng_val |-> prng_val, panic |-> panic, overflow_checks |-> overflow_checks]

Becomes(s) ==
    \E t \in {s} :
        /\ v_regs' = t.v_regs
        /\ i' = t.i
        /\ pc' = t.pc
        /\ sp' = t.sp
        /\ memory' = t.memory
        /\ dt' = t.dt
        /\ st' = t.st
        /\ timedelta_error' = t.timedelta_error
        /\ prng_val' = t.prng_val
        /\ panic' = t.panic
        /\ overflow_checks' = t.overflow_checks

new(checks) ==
    [v_regs |-> [r \in 0..(NumRegs - 1) |-> 0], i |-> 0, pc |-> 0, sp |-> StackBase,
     memory |-> <<>>, dt |-> 0, st |-> 0, timedelta_error |-> 0,
     prng_val |-> BitsOf(SeedHi, SeedLo), panic |-> "none", overflow_checks |-> checks]

go(s, addr) == [s EXCEPT !.pc = addr]

\* the host's record of a call: the method, its arguments, the machine it found
HostCall(op, arg) == [op |-> op, arg |-> arg, cpu |-> Self]
Remember(h, c) == IF Len(h) < HistLen THEN Append(h, c) ELSE Append(Tail(h), c)

Init ==
    /\ overflow_checks \in BOOLEAN
    /\ v_regs = new(overflow_checks).v_regs
    /\ i = new(overflow_checks).i
    /\ pc = new(overflow_checks).pc
    /\ sp = new(overflow_checks).sp
    /\ memory = new(overflow_checks).memory
    /\ dt = new(overflow_checks).dt
    /\ st = new(overflow_checks).st
    /\ timedelta_error = new(overflow_checks).timedelta_error
    /\ prng_val = new(overflow_checks).prng_val
    /\ panic = new(overflow_checks).panic
    /\ host = "new"
    /\ ret = <<>>
    /\ hist = <<>>

----------------------------------------------------------------------------
(* The calls of the host.                                                  *)

Go(addr) ==
    /\ Becomes(go(Self, addr))
    /\ host' = "go"
    /\ ret' = <<>>
    /\ hist' = Remember(hist, HostCall("go", <<addr>>))

WriteBytes(addr, data) ==
    /\ Becomes(write_bytes(Self, addr, data))
    /\ host' = "loaded"
    /\ ret' = <<>>
    /\ hist' = Remember(hist, HostCall("write_bytes", <<addr>> \o data))

Clock(ms_delta) ==
    /\ Becomes(clock(Self, ms_delta))
    /\ host' = "loaded"
    /\ ret' = <<>>
    /\ hist' = Remember(hist, HostCall("clock", ms_delta))


ApiCall(op, arg, s, r) ==
    /\ Becomes(s)
    /\ host' = "new"
    /\ ret' = r
    /\ hist' = Remember(hist, HostCall(op, arg))

WriteByte(addr, data) ==
    ApiCall("write_byte", <<addr, data>>, write_byte(Self, addr, data), <<>>)

WriteWord(addr, data) ==
    ApiCall("write_word", <<addr, data>>, write_word(Self, addr, data), <<>>)

ReadByte(addr) ==
    IF read_byte_ok(Self, addr)
    THEN ApiCall("read_byte", <<addr>>, Self, <<read_byte(Self, addr)>>)
    ELSE ApiCall("read_byte", <<addr>>, Panic(Self, "index out of bounds"), <<>>)

ReadWord(addr) ==
    IF read_word_ok(Self, addr)
    THEN ApiCall("read_word", <<addr>>, Self, <<read_word(Self, addr)>>)
    ELSE ApiCall("read_word", <<addr>>, Panic(Self, "index out of bounds"), <<>>)

ApiWriteBytes(addr, data) ==
    ApiCall("write_bytes", <<addr>> \o data, write_bytes(Self, addr, data), <<>>)

ReadBytes(addr, size) ==
    IF read_bytes_panic(Self, addr, size) = "none"
    THEN ApiCall("read_bytes", <<addr, size>>, Self, read_bytes(Self, addr, size))
    ELSE ApiCall("read_bytes", <<addr, size>>,
                 Panic(Self, read_bytes_panic(Self, addr, size)), <<>>)

----------------------------------------------------------------------------
(* The programs the host loads.                                            *)

RegIdx == (0..MaxReg) \cup {NumRegs - 1}
Vals   == (0..MaxVal) \cup ((255 - MaxVal)..255)

Op(n0, n1, n2, n3) == n0 * 4096 + n1 * 256 + n2 * 16 + n3
Imm(n0, x, kk) == n0 * 4096 + x * 256 + kk

RECURSIVE Asm(_)
Asm(ws) == IF ws = <<>> THEN <<>> ELSE to_be_bytes(Head(ws)) \o Asm(Tail(ws))

\* 6xkk, 6ykk and one more word
LastWords(x, y) ==
    {Op(8, x, y, n) : n \in (0..8) \cup {14}}
    \cup {Imm(n0, x, kk) : n0 \in {3, 4, 7, 12}, kk \in Vals}
    \cup {Op(n0, x, y, n) : n0 \in {5, 9}, n \in {0, 1}}
    \cup {Imm(15, x, lo) : lo \in {7, 8, 10, 21, 22, 24, 30, 41, 51, 85, 101}}
    \cup {224, 238, 291, 8190, 8191, 41251, 45822, 53249, 57502, 57505, 65382, 65535}

RegPrograms ==
    UNION {{<<Imm(6, x, a), Imm(6, y, b), w>> : w \in LastWords(x, y)} :
              x \in RegIdx, y \in RegIdx, a \in Vals, b \in Vals}

\* 2nnn at word c, 00EE at word r = nnn, 6000 elsewhere; a call of itself; two returns
CallPrograms ==
    {[k \in 1..MaxWords |->
        IF k = c THEN Imm(2, 0, 0) + LoadBase + 2 * (r - 1)
        ELSE IF k = r THEN 238 ELSE Imm(6, 0, 0)] :
        <<c, r>> \in {q \in (1..MaxWords) \X (1..MaxWords) : q[1] # q[2]}}
    \cup {<<Imm(2, 0, 0) + LoadBase>>, <<Imm(2, 0, 0) + LoadBase + 2, Imm(2, 0, 0) + LoadBase>>}

\* 6xkk, Annn, Fx55, 6xkk, Fx65
StorePrograms ==
    {<<Imm(6, x, a), Imm(10, 0, 0) + nnn, Imm(15, x, 85), Imm(6, x, b), Imm(15, x, 101)>> :
        x \in RegIdx, a \in Vals, b \in Vals, nnn \in {768, MemSize - 1}}

\* Cxkk, Cykk
RandPrograms ==
    {<<Imm(12, x, a), Imm(12, y, b)>> : x \in RegIdx, y \in RegIdx, a \in Vals, b \in Vals}

\* the program of main.rs, a1 23, and its like: Annn alone
MainPrograms == {<<Imm(10, 0, 0) + nnn>> : nnn \in {0, 291, MemSize - 1}}

Programs ==
    RegPrograms \cup CallPrograms \cup StorePrograms \cup RandPrograms \cup MainPrograms

\* 6Fkk, FF15 or FF18, then instructions that leave the timers alone
TimerPrograms ==
    {<<Imm(6, 15, t), Imm(15, 15, lo)>> \o [k \in 1..HistLen |-> Imm(6, 0, 0)] :
        t \in 0..MaxTimer, lo \in {21, 24}}

Ms(n) == <<n \div U16, n % U16>>
Deltas == {Ms(0), Ms(4), Ms(20), <<U16 - 1, U16 - 1>>}

ApiAddrs == {MemSize - 2, MemSize - 1, MemSize, U16 - 1}

----------------------------------------------------------------------------
(* The host of main.rs: new, go, write_bytes, then clock.                  *)

\* a process that has panicked makes no call
At(position) == panic = "none" /\ host = position

HostGo == At("new") /\ Go(LoadBase)

HostLoad == At("go") /\ \E p \in Programs : WriteBytes(LoadBase, Asm(p))

HostClock == At("loaded") /\ Clock(Ms(MsDelta))

Next == HostGo \/ HostLoad \/ HostClock

Spec == Init /\ [][Next]_vars

(* A host that loads a timer and calls clock with varying deltas.          *)

HostLoadTimer == At("go") /\ \E p \in TimerPrograms : WriteBytes(LoadBase, Asm(p))

HostClockDelta == At("loaded") /\ \E ms_delta \in Deltas : Clock(ms_delta)

NextClock == HostGo \/ HostLoadTimer \/ HostClockDelta

SpecClock == Init /\ [][NextClock]_vars

(* A host that uses the memory interface of a new machine.                 *)

Api == At("new") /\ Len(hist) < MaxApiCalls

HostWriteByte == Api /\ \E addr \in ApiAddrs, data \in {0, 1, 255} : WriteByte(addr, data)

HostWriteWord == Api /\ \E addr \in ApiAddrs, data \in {255, 4660} : WriteWord(addr, data)

HostReadByte == Api /\ \E addr \in ApiAddrs : ReadByte(addr)

HostReadWord == Api /\ \E addr \in ApiAddrs : ReadWord(addr)

HostWriteBytes == Api /\ \E addr \in ApiAddrs, data \in {<<>>, <<7, 9>>} : ApiWriteBytes(addr, data)

HostReadBytes == Api /\ \E addr \in ApiAddrs, size \in {0, 2} : ReadBytes(addr, size)

NextMem ==
    \/ HostWriteByte \/ HostWriteWord \/ HostReadByte
    \/ HostReadWord \/ HostWriteBytes \/ HostReadBytes

SpecMem == Init /\ [][NextMem]_vars

----------------------------------------------------------------------------
(* What the host remembers: Ago(0) is its last call, Ago(1) the one before. *)

Ago(k) == hist[Len(hist) - k]
Called(k, op) == Len(hist) > k /\ Ago(k).op = op

\* the word the clock call Ago(k) fetched, when it came to execute one
Fetch(k) == read_word(Tick(Ago(k).cpu, Ago(k).arg), Ago(k).cpu.pc)
Executed(k) ==
    /\ Called(k, "clock")
    /\ Running(Tick(Ago(k).cpu, Ago(k).arg))
    /\ read_word_ok(Ago(k).cpu, Ago(k).cpu.pc)

Max(a, b) == IF a >= b THEN a ELSE b

\* the fields of a 16-bit word, as the instruction table names them
N0(w) == w \div 4096
X(w)  == (w \div 256) % 16
Y(w)  == (w \div 16) % 16
N(w)  == w % 16
KK(w) == w % 256
NNN(w) == w % 4096

----------------------------------------------------------------------------
\* C1: a call 2nnn at an even in-range address A with SP = s, executed in one
\* clock call, then 00EE at nnn executed in the next clock call, leaves
\* PC = A + 2 and SP = s.
CallReturnRestoresPcSp ==
    (/\ Executed(1) /\ Executed(0)
     /\ N0(Fetch(1)) = 2
     /\ Ago(1).cpu.pc % 2 = 0
     /\ Ago(0).cpu.pc = NNN(Fetch(1))
     /\ Fetch(0) = 238)
    => /\ panic = "none"
       /\ pc = Ago(1).cpu.pc + 2
       /\ sp = Ago(1).cpu.sp

----------------------------------------------------------------------------
\* the ticks of a clock call: (ms_delta + leftover) / 16
TicksOf(ms_delta, err) ==
    AddMs(ms_delta, err)[1] * (U16 \div TickMs) + AddMs(ms_delta, err)[2] \div TickMs

\* the words whose execution writes a timer (Fx15, Fx18 as the code decodes them)
WritesTimer(w) == Between(61461, w, 65304) /\ ~Between(61447, w, 65287)

\* C2: every clock(ms_delta) call, with ticks = (ms_delta + leftover) / 16,
\* leaves each timer at max(0, old value - ticks), and no timer wraps below
\* zero or causes a fault.
TimersSaturate ==
    Called(0, "clock") =>
        LET c == Ago(0).cpu
            ticks == TicksOf(Ago(0).arg, c.timedelta_error)
        IN  /\ panic # "overflow"
            /\ (Executed(0) /\ ~WritesTimer(Fetch(0))) =>
                  /\ dt = Max(0, c.dt - ticks)
                  /\ st = Max(0, c.st - ticks)

----------------------------------------------------------------------------
\* the last m calls were clock(4), none executing a timer write
Fours(m) ==
    /\ Len(hist) >= m
    /\ \A k \in 0..(m - 1) :
          /\ Called(k, "clock")
          /\ Ago(k).arg = Ms(4)
          /\ Executed(k) => ~WritesTimer(Fetch(k))

\* C3: from one state, five consecutive clock(4) calls decrement the delay and
\* the sound timer by the same total as one clock(20) call: one decrement each,
\* remainder 4 left over.
FiveFoursAsOneTwenty ==
    /\ \A m \in 1..5 : Fours(m) => panic # "overflow"
    /\ Fours(5) =>
        LET c == Ago(4).cpu
            one == clock(c, Ms(20))
        IN  /\ one.panic # "overflow"
            /\ c.dt - dt = c.dt - one.dt
            /\ c.st - st = c.st - one.st
            /\ timedelta_error = one.timedelta_error
            /\ c.timedelta_error = 0 =>
                  /\ dt = Max(0, c.dt - 1)
                  /\ st = Max(0, c.st - 1)
                  /\ timedelta_error = 4

----------------------------------------------------------------------------
\* C4: 8xy4 completes without fault, leaves VF = 1 iff Vx + Vy > 255 (else 0)
\* and leaves Vx = (Vx + Vy) mod 256, for every x, y and every Vx, Vy.
AddSetsCarry ==
    (Executed(0) /\ N0(Fetch(0)) = 8 /\ N(Fetch(0)) = 4) =>
        LET c == Ago(0).cpu
            sum == c.v_regs[X(Fetch(0))] + c.v_regs[Y(Fetch(0))]
        IN  /\ panic = "none"
            /\ v_regs[15] = (IF sum > 255 THEN 1 ELSE 0)
            /\ v_regs[X(Fetch(0))] = sum % 256

\* C5: 8xy5 sets VF = 1 if Vx >= Vy (else 0) with Vx = (Vx - Vy) mod 256;
\* 8xy7 sets VF = 1 if Vy >= Vx (else 0) with Vx = (Vy - Vx) mod 256.
SubSetsNoBorrow ==
    (Executed(0) /\ N0(Fetch(0)) = 8 /\ N(Fetch(0)) \in {5, 7}) =>
        LET c == Ago(0).cpu
            vx == c.v_regs[X(Fetch(0))]
            vy == c.v_regs[Y(Fetch(0))]
            a == IF N(Fetch(0)) = 5 THEN vx ELSE vy
            b == IF N(Fetch(0)) = 5 THEN vy ELSE vx
        IN  /\ panic = "none"
            /\ v_regs[15] = (IF a >= b THEN 1 ELSE 0)
            /\ v_regs[X(Fetch(0))] = (a - b + 256) % 256

----------------------------------------------------------------------------
\* the opcode patterns of the instruction table
Defined(w) ==
    \/ w \in {224, 238}
    \/ N0(w) \in {1, 2, 3, 4, 6, 7, 10, 11, 12, 13}
    \/ N0(w) \in {5, 9} /\ N(w) = 0
    \/ N0(w) = 8 /\ N(w) \in (0..7) \cup {14}
    \/ N0(w) = 14 /\ KK(w) \in {158, 161}
    \/ N0(w) = 15 /\ KK(w) \in {7, 10, 21, 24, 30, 41, 51, 85, 101}

\* C6: a fetched word matching none of the defined opcode patterns yields an
\* UnknownOpcode condition (here: the "undefined opcode" report) and modifies
\* neither registers nor memory.
UndefinedOpcodeReported ==
    (Executed(0) /\ ~Defined(Fetch(0))) =>
        /\ panic = "undefined opcode"
        /\ v_regs = Ago(0).cpu.v_regs
        /\ i = Ago(0).cpu.i
        /\ sp = Ago(0).cpu.sp
        /\ memory = Ago(0).cpu.memory

----------------------------------------------------------------------------
\* the clock call Ago(k) executed the word Fx<lo> with I..I+x in range
RegBlock(k, lo) ==
    /\ Executed(k)
    /\ N0(Fetch(k)) = 15 /\ KK(Fetch(k)) = lo
    /\ Ago(k).cpu.i + X(Fetch(k)) < MemSize

SameBlock(m1, m2, addr, x) == \A a \in addr..(addr + x) : MemAt(m1, a) = MemAt(m2, a)

\* C7: Fx55 and later Fx65 with the same x and the same I leave V0..Vx as they
\* were before the Fx55, whatever the registers held in between.
StoreLoadRoundTrip ==
    \A k \in 1..(HistLen - 1) :
        (/\ RegBlock(k, 85) /\ RegBlock(0, 101)
         /\ X(Fetch(k)) = X(Fetch(0))
         /\ Ago(k).cpu.i = Ago(0).cpu.i
         /\ SameBlock(Ago(k - 1).cpu.memory, Ago(0).cpu.memory,
                      Ago(0).cpu.i, X(Fetch(0))))
        => /\ panic = "none"
           /\ \A r \in 0..X(Fetch(0)) : v_regs[r] = Ago(k).cpu.v_regs[r]

\* C8: Fx55 writes exactly V0..Vx to memory[I..I+x] and completes without
\* fault when I + x < 4096, for every x in 0..15.
StoreWritesRegs ==
    RegBlock(0, 85) =>
        LET c == Ago(0).cpu
            x == X(Fetch(0))
        IN  /\ panic = "none"
            /\ \A k \in 0..x : MemAt(memory, c.i + k) = c.v_regs[k]
            /\ \A a \in (DOMAIN memory \cup DOMAIN c.memory) \ (c.i..(c.i + x)) :
                  MemAt(memory, a) = MemAt(c.memory, a)

----------------------------------------------------------------------------
\* the number of bytes a call of the memory interface touches, from its address on
Touched(c) ==
    IF c.op \in {"write_byte", "read_byte"} THEN 1
    ELSE IF c.op \in {"write_word", "read_word"} THEN 2
    ELSE IF c.op = "write_bytes" THEN Len(c.arg) - 1
    ELSE IF c.op = "read_bytes" THEN c.arg[2]
    ELSE 0

InRange(addr) == 0 <= addr /\ addr < MemSize

\* C9: a memory access whose first or last touched address is outside
\* [0, 4096) fails with an address-out-of-range error, reading and writing
\* nothing (a word access at 0xFFF leaves the byte at 0xFFF alone); so does
\* the instruction fetch at such a PC.
OutOfRangeAccessFails ==
    /\ (/\ Len(hist) > 0
        /\ Touched(Ago(0)) > 0
        /\ ~(InRange(Ago(0).arg[1]) /\ InRange(Ago(0).arg[1] + Touched(Ago(0)) - 1)))
       => /\ panic = "index out of bounds"
          /\ memory = Ago(0).cpu.memory
          /\ ret = <<>>
    /\ (/\ Called(0, "clock")
        /\ Running(Tick(Ago(0).cpu, Ago(0).arg))
        /\ ~(InRange(Ago(0).cpu.pc) /\ InRange(Ago(0).cpu.pc + 1)))
       => /\ panic = "index out of bounds"
          /\ memory = Ago(0).cpu.memory

----------------------------------------------------------------------------
\* C10: SP stays in 0..0x200: a push (2nnn) at SP = 0 and a pop (00EE) at
\* SP = 0x200 are stack faults that leave SP and memory as they were.
StackPointerInRange ==
    /\ 0 <= sp /\ sp <= StackBase
    /\ (/\ Executed(0)
        /\ \/ N0(Fetch(0)) = 2 /\ Ago(0).cpu.sp = 0
           \/ Fetch(0) = 238 /\ Ago(0).cpu.sp = StackBase)
       => /\ panic # "none"
          /\ sp = Ago(0).cpu.sp
          /\ memory = Ago(0).cpu.memory

----------------------------------------------------------------------------
\* C11: the machine has no keypad, so no key is ever available: a clock call
\* that executes Fx0A completes without fault, leaves PC at the address of
\* that Fx0A and leaves Vx unchanged (PC advances past it only in a tick in
\* which a key becomes available).
KeyWaitHoldsPc ==
    (Executed(0) /\ N0(Fetch(0)) = 15 /\ KK(Fetch(0)) = 10) =>
        /\ panic = "none"
        /\ pc = Ago(0).cpu.pc
        /\ v_regs[X(Fetch(0))] = Ago(0).cpu.v_regs[X(Fetch(0))]

----------------------------------------------------------------------------
\* C12: for every x, Fx15 sets the delay timer to Vx and Fx18 sets the sound
\* timer to Vx, without fault, leaving Vx and every other register (V0..VF,
\* I, SP) unchanged.
TimerLoadsFromVx ==
    (Executed(0) /\ N0(Fetch(0)) = 15 /\ KK(Fetch(0)) \in {21, 24}) =>
        LET c == Ago(0).cpu
        IN  /\ panic = "none"
            /\ KK(Fetch(0)) = 21 => dt = c.v_regs[X(Fetch(0))]
            /\ KK(Fetch(0)) = 24 => st = c.v_regs[X(Fetch(0))]
            /\ v_regs = c.v_regs
            /\ i = c.i
            /\ sp = c.sp

----------------------------------------------------------------------------
\* the clock call Ago(1) executed 6xkk and the next, Ago(0), executed 3xkk
\* with the same x
LoadThenSkipEqual ==
    /\ Executed(1) /\ Executed(0)
    /\ N0(Fetch(1)) = 6 /\ N0(Fetch(0)) = 3
    /\ X(Fetch(1)) = X(Fetch(0))

\* C13: after 6xkk, Vx = kk exactly; a 3xkk executed next with the same x
\* leaves PC at its address plus 4 when its kk is the same, and at its
\* address plus 2 when its kk differs.
LoadImmThenSkip ==
    /\ (Executed(0) /\ N0(Fetch(0)) = 6) =>
          /\ panic = "none"
          /\ v_regs[X(Fetch(0))] = KK(Fetch(0))
    /\ LoadThenSkipEqual =>
          /\ panic = "none"
          /\ pc = Ago(0).cpu.pc + (IF KK(Fetch(1)) = KK(Fetch(0)) THEN 4 ELSE 2)

\* 6xFF then 3xFF: the skip was taken
SkipTaken ==
    /\ LoadThenSkipEqual
    /\ KK(Fetch(1)) = 255 /\ KK(Fetch(0)) = 255
    /\ v_regs[X(Fetch(0))] = 255
    /\ pc = Ago(0).cpu.pc + 4

----------------------------------------------------------------------------
(* The generator of the instruction table, on numbers: a 32-bit state is   *)
(* the pair <<high 16 bits, low 16 bits>>.                                 *)

HalvesOf(v) == <<LowBits(ShrBits(v, 16), 16), LowBits(v, 16)>>

\* p << n truncated to 32 bits, n < 16
ShlHalves(p, n) ==
    <<(p[1] * Pow2(n) + (p[2] * Pow2(n)) \div U16) % U16, (p[2] * Pow2(n)) % U16>>

\* p >> n, n >= 16
ShrHalves(p, n) == <<0, p[1] \div Pow2(n - 16)>>

XorHalves(a, b) == <<BitXor(a[1], b[1]), BitXor(a[2], b[2])>>

\* s ^= s << 13; s ^= s >> 17; s ^= s << 5
NextState(p) ==
    LET a == XorHalves(p, ShlHalves(p, 13))
        b == XorHalves(a, ShrHalves(a, 17))
    IN  XorHalves(b, ShlHalves(b, 5))

RECURSIVE StateAfter(_, _)
StateAfter(p, n) == IF n = 0 THEN p ELSE StateAfter(NextState(p), n - 1)

\* the clock call Ago(k) executed Cxkk
Drew(k) == Executed(k) /\ N0(Fetch(k)) = 12

\* C14: each Cxkk advances the generator state exactly once by the three
\* xorshift steps and sets Vx = (low 8 bits of the new state) AND kk; the
\* state starts at 0x0badf00d and nothing else changes it, so the state (and
\* with it the bytes drawn) depends only on the number of Cxkk executed.
RandomIsXorShift ==
    /\ hist = <<>> => HalvesOf(prng_val) = <<2989, 61453>>
    /\ (Len(hist) > 0 /\ ~Drew(0)) => prng_val = Ago(0).cpu.prng_val
    /\ Drew(0) =>
          /\ panic = "none"
          /\ HalvesOf(prng_val) = NextState(HalvesOf(Ago(0).cpu.prng_val))
          /\ v_regs[X(Fetch(0))] = BitAnd(HalvesOf(prng_val)[2] % 256, KK(Fetch(0)))
    /\ (Drew(0) /\ hist[1].op = "go") =>
          HalvesOf(prng_val) =
              StateAfter(<<2989, 61453>>, Cardinality({k \in 0..(Len(hist) - 1) : Drew(k)}))

\* CxFF twice: the second byte of the sequence is in Vx
DrewTwice ==
    /\ Drew(1) /\ Drew(0)
    /\ KK(Fetch(0)) = 255
    /\ v_regs[X(Fetch(0))] = HalvesOf(prng_val)[2] % 256
    /\ prng_val # Ago(0).cpu.prng_val
    /\ Ago(0).cpu.prng_val # Ago(1).cpu.prng_val

----------------------------------------------------------------------------
\* the fields of a machine other than its memory are those of c
SameRegisters(c) ==
    /\ v_regs = c.v_regs /\ i = c.i /\ pc = c.pc /\ sp = c.sp
    /\ dt = c.dt /\ st = c.st /\ timedelta_error = c.timedelta_error

\* C15: write_byte(a, b) with a in [0, 4096) followed by read_byte(a) returns
\* b, and the write leaves every other memory address, all registers and the
\* timers unchanged.
WriteThenReadByte ==
    /\ (Called(0, "write_byte") /\ InRange(Ago(0).arg[1])) =>
          /\ panic = "none"
          /\ MemAt(memory, Ago(0).arg[1]) = Ago(0).arg[2]
          /\ \A a \in (DOMAIN memory \cup DOMAIN Ago(0).cpu.memory) \ {Ago(0).arg[1]} :
                MemAt(memory, a) = MemAt(Ago(0).cpu.memory, a)
          /\ SameRegisters(Ago(0).cpu)
    /\ (/\ Called(1, "write_byte") /\ Called(0, "read_byte")
        /\ InRange(Ago(1).arg[1])
        /\ Ago(0).arg[1] = Ago(1).arg[1])
       => /\ panic = "none"
          /\ ret = <<Ago(1).arg[2]>>

\* 255 written over the low byte of a word at 0xFFE, then read back
ReadBackByte ==
    /\ Called(2, "write_word") /\ Called(1, "write_byte") /\ Called(0, "read_byte")
    /\ Ago(2).arg = <<MemSize - 2, 4660>>
    /\ Ago(1).arg = <<MemSize - 1, 255>>
    /\ Ago(0).arg = <<MemSize - 1>>
    /\ ret = <<255>>
    /\ MemAt(memory, MemSize - 2) = 18

----------------------------------------------------------------------------
\* C16: word access is big-endian on both paths: after write_word(a, w) with
\* a in [0, 4095), memory[a] = w / 256 and memory[a+1] = w mod 256 and
\* read_word(a) returns w; in any state read_word(a) returns
\* memory[a] * 256 + memory[a+1].
WordsAreBigEndian ==
    /\ (Called(0, "write_word") /\ InRange(Ago(0).arg[1] + 1)) =>
          /\ panic = "none"
          /\ MemAt(memory, Ago(0).arg[1]) = Ago(0).arg[2] \div 256
          /\ MemAt(memory, Ago(0).arg[1] + 1) = Ago(0).arg[2] % 256
    /\ (/\ Called(1, "write_word") /\ Called(0, "read_word")
        /\ InRange(Ago(1).arg[1] + 1)
        /\ Ago(0).arg[1] = Ago(1).arg[1])
       => /\ panic = "none"
          /\ ret = <<Ago(1).arg[2]>>
    /\ (Called(0, "read_word") /\ InRange(Ago(0).arg[1] + 1)) =>
          /\ panic = "none"
          /\ ret = <<MemAt(memory, Ago(0).arg[1]) * 256 + MemAt(memory, Ago(0).arg[1] + 1)>>

\* 0x1234 written at 0xFFE and read back, its high byte first in memory
ReadBackWord ==
    /\ Called(1, "write_word") /\ Called(0, "read_word")
    /\ Ago(1).arg = <<MemSize - 2, 4660>>
    /\ Ago(0).arg = <<MemSize - 2>>
    /\ ret = <<4660>>
    /\ MemAt(memory, MemSize - 2) = 18
    /\ MemAt(memory, MemSize - 1) = 52

----------------------------------------------------------------------------
\* the clock call Ago(0) executed 8xy6 or 8xyE
Shifted == Executed(0) /\ N0(Fetch(0)) = 8 /\ N(Fetch(0)) \in {6, 14}

\* the bit shifted out of Vx and the value left, from Vx before the shift
ShiftFlag ==
    LET x == Ago(0).cpu.v_regs[X(Fetch(0))]
    IN  IF N(Fetch(0)) = 6 THEN x % 2 ELSE x \div 128

ShiftValue ==
    LET x == Ago(0).cpu.v_regs[X(Fetch(0))]
    IN  IF N(Fetch(0)) = 6 THEN x \div 2 ELSE (x * 2) % 256

\* C17: for every x, y and every Vx, after 8xy6 VF is the least-significant
\* bit of the pre-shift Vx and Vx is the pre-shift Vx >> 1; after 8xyE VF is
\* the most-significant bit of the pre-shift Vx and Vx is (Vx << 1) mod 256.
ShiftSetsFlagAndValue ==
    Shifted =>
        /\ panic = "none"
        /\ v_regs[15] = ShiftFlag
        /\ v_regs[X(Fetch(0))] = ShiftValue

\* C17, amended: as above for x in 0..14; for x = 15 the register is both the
\* operand and the flag, and it ends holding the shifted value.
ShiftSetsFlagOrValue ==
    Shifted =>
        /\ panic = "none"
        /\ v_regs[X(Fetch(0))] = ShiftValue
        /\ X(Fetch(0)) # 15 => v_regs[15] = ShiftFlag

\* 8xyE on Vx = 255 with x below 15: the flag is 1 and Vx is 254
ShiftedOutOne ==
    /\ Shifted
    /\ N(Fetch(0)) = 14
    /\ X(Fetch(0)) # 15 /\ X(Fetch(0)) # Y(Fetch(0))
    /\ Ago(0).cpu.v_regs[X(Fetch(0))] = 255
    /\ Ago(0).cpu.v_regs[Y(Fetch(0))] = 0
    /\ v_regs[15] = 1
    /\ v_regs[X(Fetch(0))] = 254

----------------------------------------------------------------------------
\* the host has done what main.rs does: new, go(0x200), write_bytes(0x200,
\* [a1, 23]), clock(1)
MainRan ==
    /\ Len(hist) = 3
    /\ hist[1].op = "go" /\ hist[1].arg = <<512>>
    /\ hist[2].op = "write_bytes" /\ hist[2].arg = <<512, 161, 35>>
    /\ hist[3].op = "clock" /\ hist[3].arg = <<0, 1>>

\* C18: a clock call that fetches Annn at an even in-range PC sets I = nnn and
\* PC = PC + 2 and leaves V0..VF, SP, the generator state and all of memory
\* unchanged; a new machine after go(0x200), write_bytes(0x200, [a1, 23]) and
\* clock(1) has I = 0x123 and PC = 0x202.
LoadIndexFrame ==
    /\ (Executed(0) /\ N0(Fetch(0)) = 10 /\ Ago(0).cpu.pc % 2 = 0) =>
          /\ panic = "none"
          /\ i = NNN(Fetch(0))
          /\ pc = Ago(0).cpu.pc + 2
          /\ v_regs = Ago(0).cpu.v_regs
          /\ sp = Ago(0).cpu.sp
          /\ prng_val = Ago(0).cpu.prng_val
          /\ memory = Ago(0).cpu.memory
    /\ MainRan => (panic = "none" /\ i = 291 /\ pc = 514)

\* main.rs has run: I = 0x123, PC = 0x202
MainEnded ==
    /\ MainRan
    /\ Executed(0) /\ Fetch(0) = 41251
    /\ i = 291 /\ pc = 514

----------------------------------------------------------------------------
\* the host remembers every call it made since the machine was new
AllRemembered == Len(hist) > 0 /\ hist[1].op = "go"

RECURSIVE SumTo(_, _)
SumTo(f, n) == IF n = 0 THEN 0 ELSE f[n] + SumTo(f, n - 1)

\* d1 + ... + dn of the clock calls made, its high and low halves summed apart
DeltaHi == SumTo([j \in 1..Len(hist) |-> IF hist[j].op = "clock" THEN hist[j].arg[1] ELSE 0], Len(hist))
DeltaLo == SumTo([j \in 1..Len(hist) |-> IF hist[j].op = "clock" THEN hist[j].arg[2] ELSE 0], Len(hist))

\* the tick counts of the clock calls made, summed
TicksCounted ==
    SumTo([j \in 1..Len(hist) |->
              IF hist[j].op = "clock" THEN TimerTicks(hist[j].cpu, hist[j].arg) ELSE 0],
          Len(hist))

\* C19: after clock calls with deltas d1..dn on a new machine the leftover is
\* (d1 + ... + dn) mod 16, always in 0..15, and the tick counts of the calls
\* sum to floor((d1 + ... + dn) / 16).
LeftoverIsExact ==
    /\ timedelta_error \in 0..(TickMs - 1)
    /\ AllRemembered =>
          /\ timedelta_error = DeltaLo % TickMs
          /\ TicksCounted = DeltaHi * (U16 \div TickMs) + DeltaLo \div TickMs

----------------------------------------------------------------------------
\* the addresses whose byte differs from what the machine c held
Modified(c) ==
    {a \in DOMAIN memory \cup DOMAIN c.memory : MemAt(memory, a) # MemAt(c.memory, a)}

\* C20: a clock call modifies memory only when it executes 2nnn (the two
\* bytes at the new SP and SP + 1) or Fx55 (bytes from I on); every other
\* instruction, 00EE and Fx65 included, leaves all of memory unchanged.
ClockMemoryFrame ==
    Called(0, "clock") =>
        IF Executed(0) /\ N0(Fetch(0)) = 2
        THEN Modified(Ago(0).cpu) \subseteq {sp, sp + 1}
        ELSE IF Executed(0) /\ N0(Fetch(0)) = 15 /\ KK(Fetch(0)) = 85
        THEN Modified(Ago(0).cpu) \subseteq (Ago(0).cpu.i)..(Ago(0).cpu.i + X(Fetch(0)))
        ELSE memory = Ago(0).cpu.memory

\* a call pushed its return address: two bytes below the old SP changed
PushedTwoBytes ==
    /\ Executed(0) /\ N0(Fetch(0)) = 2
    /\ panic = "none"
    /\ sp = Ago(0).cpu.sp - 2
    /\ Modified(Ago(0).cpu) = {sp, sp + 1}

====
